---- MODULE Spec2Model ----
(***************************************************************************)
(* Weighted round-robin task scheduler                                     *)
(* (common/task/weightedRoundRobinTaskScheduler.go).                       *)
(*                                                                         *)
(* Goroutines of the model: the callers of Start(), the callers of Stop(), *)
(* one caller of Submit(task) per task, and the dispatcher goroutine that  *)
(* Start() spawns.  Every goroutine advances one shared-memory operation   *)
(* per step.  A Go select statement is one step that picks any of the      *)
(* cases that can proceed (the default case only when no other can), as    *)
(* the language specification defines it; a goroutine waiting at a select  *)
(* has no step while no case can proceed.  The Processor is an external    *)
(* collaborator: its Submit returns nil or an error, either at any time.   *)
(*                                                                         *)
(* Four specifications share the actions:                                  *)
(*   Spec           one Start caller, one Stop caller, NumTasks Submits;   *)
(*   SpecLifecycle  NumStarters Start callers, NumStoppers Stop callers;   *)
(*   SpecRound      the dispatcher alone on queues filled before Start;    *)
(*   SpecLive       callers that go on submitting, with fair scheduling.   *)
(***************************************************************************)
EXTENDS Integers, Sequences, FiniteSets, TLC

\* ------------------------------------------------------------------ bounds
NumTasks    == 2   \* tasks (and Submit callers) of the concurrent specification
MaxQueueSize == 2  \* options.QueueSize ranges over 1..MaxQueueSize
NumStarters == 2   \* concurrent callers of Start()
NumStoppers == 2   \* concurrent callers of Stop()
MaxFill     == 5   \* largest pre-filled queue length of the round specification
MaxQuietRounds == 3  \* the count of rounds begun while quiescent stops here


\* common.DaemonStatus*
DaemonStatusInitialized == "Initialized"
DaemonStatusStarted     == "Started"
DaemonStatusStopped     == "Stopped"

\* outcomes of Submit
ErrNone                == "nil"
ErrPriorityExceeds     == "task priority exceeds limit"
ErrTaskSchedulerClosed == "task scheduler has already shutdown"
PanicIndexOutOfRange   == "panic: index out of range"
Pending                == "pending"

VARIABLES
  options,        \* [Weights, QueueSize], immutable after construction
  status,         \* w.status
  taskChs,        \* w.taskChs: priority (0-based) -> sequence of buffered tasks
  shutdownCh,     \* w.shutdownCh: number of close() calls made on it (0 = open)
  notifyCh,       \* w.notifyCh: number of buffered notifications (capacity 1)
  dispatcherWG,   \* w.dispatcherWG counter
  processor,      \* calls made on w.processor: [started, stopped]
  spawned,        \* number of dispatcher goroutines spawned by Start
  startPc,        \* Start caller -> position
  stopPc,         \* Stop caller -> position
  submitPc,       \* task -> position of the Submit(task) call
  submitPriority, \* task -> task.Priority(), for the tasks whose Submit began
  submitResult,   \* task -> what Submit(task) returned
  dispatcher,     \* dispatcher goroutine: [pc, outstandingTasks, priority, i, task]
  procSubmits,    \* task -> number of w.processor.Submit(task) calls
  procAccepts,    \* task -> number of those calls that returned nil
  nackCount,      \* task -> number of task.Nack() calls
  roundStart,     \* taskChs as they were when the current round began
  roundDequeued,  \* tasks dequeued in the current round, in order
  roundClean,     \* no enqueue, close or Processor rejection since the round began
  afterStop,      \* tasks whose Submit began after the Stop that shut down returned
  shutdownFirst,  \* tasks whose Submit faced a full queue when shutdownCh was closed
  enqLog,         \* priority -> tasks in the order their sends on taskChs took effect
  fwdLog,         \* priority -> tasks in the order they reached w.processor.Submit
  emptyPop,       \* the default case ran for dispatcher.priority in this round
  quietRounds     \* rounds begun since a queue last held a task or a Submit ran

vars == <<options, status, taskChs, shutdownCh, notifyCh, dispatcherWG, processor,
          spawned, startPc, stopPc, submitPc, submitPriority, submitResult,
          dispatcher, procSubmits, procAccepts, nackCount,
          roundStart, roundDequeued, roundClean, afterStop, shutdownFirst,
          enqLog, fwdLog, emptyPop, quietRounds>>

schedVars  == <<status, taskChs, shutdownCh, notifyCh, dispatcherWG, processor, spawned>>
submitVars == <<submitPc, submitPriority, submitResult, afterStop>>
taskVars   == <<procSubmits, procAccepts, nackCount>>
roundVars  == <<roundStart, roundDequeued, roundClean>>
logVars    == <<enqLog, fwdLog>>
obsVars    == <<enqLog, fwdLog, emptyPop, quietRounds>>

Tasks    == DOMAIN submitPc
Starters == DOMAIN startPc
Stoppers == DOMAIN stopPc

numQueues == Len(options.Weights)

Priorities == 0 .. numQueues - 1

\* the values task.Priority() is drawn from: one below and one above the range
PriorityInputs == -1 .. numQueues

Weight(p) == options.Weights[p + 1]

ShutdownFired == shutdownCh > 0

NoTask == "none"

RECURSIVE SeqSum(_)
SeqSum(s) == IF s = <<>> THEN 0 ELSE Head(s) + SeqSum(Tail(s))

\* ------------------------------------------------------------ construction
\* NewWeightedRoundRobinTaskScheduler with the given options; the tasks 1..n
\* are not yet submitted, and starters callers of Start and stoppers callers
\* of Stop have not yet called.
Constructed(opts, n, starters, stoppers) ==
  /\ Len(opts.Weights) > 0
  /\ options = opts
  /\ status = DaemonStatusInitialized
  /\ taskChs = [p \in 0 .. Len(opts.Weights) - 1 |-> <<>>]
  /\ shutdownCh = 0
  /\ notifyCh = 0
  /\ dispatcherWG = 0
  /\ processor = [started |-> 0, stopped |-> 0]
  /\ spawned = 0
  /\ startPc = [s \in 1..starters |-> "idle"]
  /\ stopPc = [s \in 1..stoppers |-> "idle"]
  /\ submitPc = [t \in 1..n |-> "idle"]
  /\ submitPriority = <<>>
  /\ submitResult = [t \in 1..n |-> Pending]
  /\ dispatcher = [pc |-> "none", outstandingTasks |-> FALSE,
                   priority |-> 0, i |-> 0, task |-> NoTask]
  /\ procSubmits = [t \in 1..n |-> 0]
  /\ procAccepts = [t \in 1..n |-> 0]
  /\ nackCount = [t \in 1..n |-> 0]
  /\ roundStart = <<>>
  /\ roundDequeued = <<>>
  /\ roundClean = FALSE
  /\ afterStop = {}
  /\ shutdownFirst = {}
  /\ enqLog = [p \in 0 .. Len(opts.Weights) - 1 |-> <<>>]
  /\ fwdLog = [p \in 0 .. Len(opts.Weights) - 1 |-> <<>>]
  /\ emptyPop = FALSE
  /\ quietRounds = 0

\* One caller of Start, one of Stop, NumTasks callers of Submit.
Init ==
  \E size \in 1..MaxQueueSize :
    Constructed([Weights |-> <<2, 1>>, QueueSize |-> size], NumTasks, 1, 1)

\* The round observation (roundStart, roundDequeued) is kept only while the
\* round is undisturbed: it is dropped when the round ends and when an
\* enqueue, a close or a rejection disturbs it.
RoundForget ==
  /\ roundStart' = <<>>
  /\ roundDequeued' = <<>>
  /\ roundClean' = FALSE

\* ---------------------------------------------------------------- channels
\* w.taskChs[priority] can be indexed
IndexInRange(priority) == priority \in DOMAIN taskChs

\* case w.taskChs[priority] <- task can proceed
CanSend(priority) == Len(taskChs[priority]) < options.QueueSize

\* case <-w.shutdownCh can proceed
CanRecvShutdown == ShutdownFired

\* the Stop call that won the compare-and-swap has returned
StopCompleted ==
  /\ processor.stopped > 0
  /\ \A s \in Stoppers : stopPc[s] \notin {"close", "processorStop", "await"}

\* ------------------------------------------------------------------- Start
\* mutant: the status is stored without being compared
StoreWithoutCompare(old) == TRUE

\* atomic.CompareAndSwapInt32(&w.status, old, new) succeeds
CompareAndSwapInt32(old) == status = old

StartCAS(s) ==
  /\ startPc[s] = "idle"
  /\ IF CompareAndSwapInt32(DaemonStatusInitialized)
       THEN /\ status' = DaemonStatusStarted
            /\ startPc' = [startPc EXCEPT ![s] = "processorStart"]
       ELSE /\ status' = status
            /\ startPc' = [startPc EXCEPT ![s] = "done"]
  /\ UNCHANGED <<options, obsVars, shutdownFirst, taskChs, shutdownCh,
                 notifyCh, dispatcherWG, processor, spawned, stopPc,
                 submitVars, dispatcher, taskVars, roundVars>>

StartProcessor(s) ==
  /\ startPc[s] = "processorStart"
  /\ processor' = [processor EXCEPT !.started = @ + 1]
  /\ startPc' = [startPc EXCEPT ![s] = "spawn"]
  /\ UNCHANGED <<options, obsVars, shutdownFirst, status, taskChs, shutdownCh,
                 notifyCh, dispatcherWG, spawned, stopPc, submitVars,
                 dispatcher, taskVars, roundVars>>

\* mutant: Start returns without running the dispatcher goroutine
StartSpawnNoDispatcher(s) ==
  /\ startPc[s] = "spawn"
  /\ dispatcherWG' = dispatcherWG + 1
  /\ startPc' = [startPc EXCEPT ![s] = "done"]
  /\ UNCHANGED <<options, obsVars, shutdownFirst, status, taskChs, shutdownCh,
                 notifyCh, processor, spawned, dispatcher, stopPc, submitVars,
                 taskVars, roundVars>>

\* w.dispatcherWG.Add(1); go w.dispatcher(); return
StartSpawn(s) ==
  /\ startPc[s] = "spawn"
  /\ dispatcherWG' = dispatcherWG + 1
  /\ spawned' = spawned + 1
  /\ dispatcher' = IF dispatcher.pc = "none"
                     THEN [dispatcher EXCEPT !.pc = "top", !.outstandingTasks = FALSE]
                     ELSE dispatcher
  /\ startPc' = [startPc EXCEPT ![s] = "done"]
  /\ UNCHANGED <<options, obsVars, shutdownFirst, status, taskChs, shutdownCh,
                 notifyCh, processor, stopPc, submitVars, taskVars, roundVars>>

\* -------------------------------------------------------------------- Stop
\* mutant: Stop does not compare the status with Started
StopCASFromAnyStatus(s) ==
  /\ stopPc[s] = "idle"
  /\ status' = DaemonStatusStopped
  /\ stopPc' = [stopPc EXCEPT ![s] = "close"]
  /\ UNCHANGED <<options, obsVars, shutdownFirst, taskChs, shutdownCh,
                 notifyCh, dispatcherWG, processor, spawned, startPc,
                 submitVars, dispatcher, taskVars, roundVars>>

StopCAS(s) ==
  /\ stopPc[s] = "idle"
  /\ IF CompareAndSwapInt32(DaemonStatusStarted)
       THEN /\ status' = DaemonStatusStopped
            /\ stopPc' = [stopPc EXCEPT ![s] = "close"]
       ELSE /\ status' = status
            /\ stopPc' = [stopPc EXCEPT ![s] = "done"]
  /\ UNCHANGED <<options, obsVars, shutdownFirst, taskChs, shutdownCh,
                 notifyCh, dispatcherWG, processor, spawned, startPc,
                 submitVars, dispatcher, taskVars, roundVars>>

\* mutant: Stop goes on to stop the Processor without closing shutdownCh
StopCloseOmitted(s) ==
  /\ stopPc[s] = "close"
  /\ stopPc' = [stopPc EXCEPT ![s] = "processorStop"]
  /\ UNCHANGED <<options, obsVars, shutdownFirst, schedVars, startPc,
                 submitVars, dispatcher, taskVars, roundVars>>

StopClose(s) ==
  /\ stopPc[s] = "close"
  /\ shutdownCh' = shutdownCh + 1
  /\ shutdownFirst' = shutdownFirst \cup
                        {t \in Tasks : submitPc[t] = "select" /\ ~CanSend(submitPriority[t])}
  /\ RoundForget
  /\ stopPc' = [stopPc EXCEPT ![s] = "processorStop"]
  /\ UNCHANGED <<options, obsVars, status, taskChs, notifyCh, dispatcherWG,
                 processor, spawned, startPc, submitVars, dispatcher,
                 taskVars>>

StopProcessor(s) ==
  /\ stopPc[s] = "processorStop"
  /\ processor' = [processor EXCEPT !.stopped = @ + 1]
  /\ stopPc' = [stopPc EXCEPT ![s] = "await"]
  /\ UNCHANGED <<options, obsVars, shutdownFirst, status, taskChs, shutdownCh,
                 notifyCh, dispatcherWG, spawned, startPc, submitVars,
                 dispatcher, taskVars, roundVars>>

\* common.AwaitWaitGroup(&w.dispatcherWG, time.Minute) returns true
StopAwait(s) ==
  /\ stopPc[s] = "await"
  /\ dispatcherWG = 0
  /\ stopPc' = [stopPc EXCEPT ![s] = "done"]
  /\ UNCHANGED <<options, obsVars, shutdownFirst, schedVars, startPc,
                 submitVars, dispatcher, taskVars, roundVars>>

\* common.AwaitWaitGroup(&w.dispatcherWG, time.Minute) times out
StopAwaitTimeout(s) ==
  /\ stopPc[s] = "await"
  /\ dispatcherWG > 0
  /\ stopPc' = [stopPc EXCEPT ![s] = "done"]
  /\ UNCHANGED <<options, obsVars, shutdownFirst, schedVars, startPc,
                 submitVars, dispatcher, taskVars, roundVars>>

\* ------------------------------------------------------------------ Submit
\* mutant: the range check is off by one
PriorityExceedsLimitOffByOne(priority) == priority > numQueues

\* line 142: the only range check Submit makes
PriorityExceedsLimit(priority) == priority >= numQueues

\* lines 141-145: read the priority, check it, evaluate the select's channels
SubmitBegin(t, priority) ==
  /\ submitPc[t] = "idle"
  /\ \A u \in Tasks : u < t => submitPc[u] # "idle"
  /\ submitPriority' = submitPriority @@ (t :> priority)
  /\ afterStop' = IF StopCompleted THEN afterStop \cup {t} ELSE afterStop
  /\ quietRounds' = IF ~PriorityExceedsLimit(priority) /\ IndexInRange(priority)
                       THEN 0 ELSE quietRounds
  /\ IF PriorityExceedsLimit(priority)
       THEN /\ submitPc' = [submitPc EXCEPT ![t] = "done"]
            /\ submitResult' = [submitResult EXCEPT ![t] = ErrPriorityExceeds]
       ELSE IF ~IndexInRange(priority)
       THEN /\ submitPc' = [submitPc EXCEPT ![t] = "done"]
            /\ submitResult' = [submitResult EXCEPT ![t] = PanicIndexOutOfRange]
       ELSE /\ submitPc' = [submitPc EXCEPT ![t] = "select"]
            /\ submitResult' = submitResult
  /\ UNCHANGED <<options, enqLog, fwdLog, emptyPop, shutdownFirst, schedVars,
                 startPc, stopPc, dispatcher, taskVars, roundVars>>

\* line 146: the send case of the select is chosen
SubmitEnqueue(t) ==
  /\ submitPc[t] = "select"
  /\ CanSend(submitPriority[t])
  /\ taskChs' = [taskChs EXCEPT ![submitPriority[t]] = Append(@, t)]
  /\ submitPc' = [submitPc EXCEPT ![t] = "notify"]
  /\ enqLog' = [enqLog EXCEPT ![submitPriority[t]] = Append(@, t)]
  /\ RoundForget
  /\ UNCHANGED <<options, fwdLog, emptyPop, quietRounds, shutdownFirst, status,
                 shutdownCh, notifyCh, dispatcherWG, processor, spawned,
                 startPc, stopPc, submitPriority, submitResult, afterStop,
                 dispatcher, taskVars>>

\* mutant: the task is nacked when Submit fails on shutdown
SubmitClosedNacks(t) ==
  /\ submitPc[t] = "select"
  /\ CanRecvShutdown
  /\ submitPc' = [submitPc EXCEPT ![t] = "done"]
  /\ submitResult' = [submitResult EXCEPT ![t] = ErrTaskSchedulerClosed]
  /\ nackCount' = [nackCount EXCEPT ![t] = @ + 1]
  /\ UNCHANGED <<options, obsVars, shutdownFirst, schedVars, startPc, stopPc,
                 submitPriority, afterStop, dispatcher, procSubmits,
                 procAccepts, roundVars>>

\* lines 154-155: the shutdown case of the select is chosen
SubmitClosed(t) ==
  /\ submitPc[t] = "select"
  /\ CanRecvShutdown
  /\ submitPc' = [submitPc EXCEPT ![t] = "done"]
  /\ submitResult' = [submitResult EXCEPT ![t] = ErrTaskSchedulerClosed]
  /\ UNCHANGED <<options, obsVars, shutdownFirst, schedVars, startPc, stopPc,
                 submitPriority, afterStop, dispatcher, taskVars, roundVars>>

\* mutant: the post is dropped
NotifySendDropped(n) == n

\* mutant: every post is buffered
NotifySendBuffersAll(n) == n + 1

\* lines 147-153: non-blocking send on notifyCh (capacity 1), return nil
NotifySend(n) == IF n < 1 THEN n + 1 ELSE n

SubmitNotify(t) ==
  /\ submitPc[t] = "notify"
  /\ notifyCh' = NotifySend(notifyCh)
  /\ submitPc' = [submitPc EXCEPT ![t] = "done"]
  /\ submitResult' = [submitResult EXCEPT ![t] = ErrNone]
  /\ UNCHANGED <<options, obsVars, shutdownFirst, status, taskChs, shutdownCh,
                 dispatcherWG, processor, spawned, startPc, stopPc,
                 submitPriority, afterStop, dispatcher, taskVars, roundVars>>

\* -------------------------------------------------------------- dispatcher
\* the loop headers of lines 177-178: the first (priority, i) at or after
\* priority p for which i < Weights[priority]; priority = numQueues when none
RECURSIVE FirstSlot(_)
FirstSlot(p) ==
  IF p >= numQueues THEN [priority |-> numQueues, i |-> 0]
  ELSE IF 0 < Weight(p) THEN [priority |-> p, i |-> 0]
  ELSE FirstSlot(p + 1)

\* mutant: the inner loop runs while i <= Weights[priority]
NextSlotOneMore(p, i) ==
  IF i + 1 <= Weight(p) THEN [priority |-> p, i |-> i + 1] ELSE FirstSlot(p + 1)

\* i++ and the loop conditions after the body ran for (p, i)
NextSlot(p, i) ==
  IF i + 1 < Weight(p) THEN [priority |-> p, i |-> i + 1] ELSE FirstSlot(p + 1)

\* the dispatcher positioned at slot: at the select of line 179, or back at
\* the top of the outer loop when the round is over
AtSlot(d, slot) ==
  [d EXCEPT !.pc = IF slot.priority < numQueues THEN "select" ELSE "top",
            !.priority = slot.priority, !.i = slot.i, !.task = NoTask]

\* the body of the select ran for the slot the dispatcher is at: on to the
\* next slot, or to the top of the outer loop when the round is over
Advance ==
  /\ dispatcher' = AtSlot(dispatcher, NextSlot(dispatcher.priority, dispatcher.i))
  /\ emptyPop' = (/\ NextSlot(dispatcher.priority, dispatcher.i).priority
                       = dispatcher.priority
                  /\ (emptyPop \/ dispatcher.pc = "select"))
  /\ IF NextSlot(dispatcher.priority, dispatcher.i).priority < numQueues
       THEN UNCHANGED roundVars
       ELSE RoundForget

\* every queue is empty and no Submit call is between its select and its return
Quiescent ==
  /\ \A p \in DOMAIN taskChs : taskChs[p] = <<>>
  /\ \A t \in Tasks : submitPc[t] \notin {"select", "notify"}

\* mutant: outstandingTasks is not reset when a round begins
BeginRoundKeepsOutstanding ==
  /\ dispatcher' = AtSlot(dispatcher, FirstSlot(0))
  /\ emptyPop' = FALSE
  /\ quietRounds' = IF ~Quiescent THEN 0
                    ELSE IF quietRounds < MaxQuietRounds THEN quietRounds + 1
                    ELSE quietRounds
  /\ IF ShutdownFired \/ FirstSlot(0).priority >= numQueues
       THEN RoundForget
       ELSE /\ roundStart' = taskChs
            /\ roundDequeued' = <<>>
            /\ roundClean' = TRUE

\* line 176 and the loop headers: a round begins
BeginRound ==
  /\ dispatcher' = AtSlot([dispatcher EXCEPT !.outstandingTasks = FALSE], FirstSlot(0))
  /\ emptyPop' = FALSE
  /\ quietRounds' = IF ~Quiescent THEN 0
                    ELSE IF quietRounds < MaxQuietRounds THEN quietRounds + 1
                    ELSE quietRounds
  /\ IF ShutdownFired \/ FirstSlot(0).priority >= numQueues
       THEN RoundForget
       ELSE /\ roundStart' = taskChs
            /\ roundDequeued' = <<>>
            /\ roundClean' = TRUE

\* w.dispatcherWG.Done() on return
DispatcherReturn ==
  /\ dispatcher' = [dispatcher EXCEPT !.pc = "done", !.task = NoTask]
  /\ dispatcherWG' = dispatcherWG - 1
  /\ emptyPop' = FALSE

\* line 165: the previous round dispatched something, no wait
DispatcherNoWait ==
  /\ dispatcher.pc = "top"
  /\ dispatcher.outstandingTasks
  /\ BeginRound
  /\ UNCHANGED <<options, logVars, shutdownFirst, schedVars, startPc, stopPc,
                 submitVars, taskVars>>

\* lines 168-170: the notification case of the idle select is chosen
DispatcherWaitNotify ==
  /\ dispatcher.pc = "top"
  /\ ~dispatcher.outstandingTasks
  /\ notifyCh > 0
  /\ notifyCh' = notifyCh - 1
  /\ BeginRound
  /\ UNCHANGED <<options, logVars, shutdownFirst, status, taskChs, shutdownCh,
                 dispatcherWG, processor, spawned, startPc, stopPc, submitVars,
                 taskVars>>

\* lines 171-172: the shutdown case of the idle select is chosen
DispatcherWaitShutdown ==
  /\ dispatcher.pc = "top"
  /\ ~dispatcher.outstandingTasks
  /\ CanRecvShutdown
  /\ DispatcherReturn
  /\ UNCHANGED <<options, logVars, quietRounds, shutdownFirst, status, taskChs,
                 shutdownCh, notifyCh, processor, spawned, startPc, stopPc,
                 submitVars, taskVars, roundVars>>

\* mutant: the task that was enqueued last is taken
DispatcherPopNewest ==
  /\ dispatcher.pc = "select"
  /\ taskChs[dispatcher.priority] # <<>>
  /\ LET q == taskChs[dispatcher.priority] IN
       /\ taskChs' = [taskChs EXCEPT ![dispatcher.priority] = SubSeq(q, 1, Len(q) - 1)]
       /\ dispatcher' = [dispatcher EXCEPT !.pc = "submit", !.outstandingTasks = TRUE,
                                           !.task = q[Len(q)]]
       /\ roundDequeued' = IF roundClean THEN Append(roundDequeued, q[Len(q)])
                                         ELSE roundDequeued
  /\ UNCHANGED <<options, obsVars, shutdownFirst, status, shutdownCh, notifyCh,
                 dispatcherWG, processor, spawned, startPc, stopPc, submitVars,
                 taskVars, roundStart, roundClean>>

\* mutant: the task is read from the queue and left in it
DispatcherPopKeepsTask ==
  /\ dispatcher.pc = "select"
  /\ taskChs[dispatcher.priority] # <<>>
  /\ dispatcher' = [dispatcher EXCEPT !.pc = "submit", !.outstandingTasks = TRUE,
                                      !.task = Head(taskChs[dispatcher.priority])]
  /\ UNCHANGED <<options, obsVars, shutdownFirst, schedVars, startPc, stopPc,
                 submitVars, taskVars, roundVars>>

\* lines 180-182: the receive case of the round's select is chosen
DispatcherPop ==
  /\ dispatcher.pc = "select"
  /\ taskChs[dispatcher.priority] # <<>>
  /\ taskChs' = [taskChs EXCEPT ![dispatcher.priority] = Tail(@)]
  /\ dispatcher' = [dispatcher EXCEPT !.pc = "submit", !.outstandingTasks = TRUE,
                                      !.task = Head(taskChs[dispatcher.priority])]
  /\ roundDequeued' = IF roundClean
                        THEN Append(roundDequeued, Head(taskChs[dispatcher.priority]))
                        ELSE roundDequeued
  /\ UNCHANGED <<options, obsVars, shutdownFirst, status, shutdownCh, notifyCh,
                 dispatcherWG, processor, spawned, startPc, stopPc, submitVars,
                 taskVars, roundStart, roundClean>>

\* lines 188-189: the shutdown case of the round's select is chosen
DispatcherPopShutdown ==
  /\ dispatcher.pc = "select"
  /\ CanRecvShutdown
  /\ DispatcherReturn
  /\ UNCHANGED <<options, logVars, quietRounds, shutdownFirst, status, taskChs,
                 shutdownCh, notifyCh, processor, spawned, startPc, stopPc,
                 submitVars, taskVars, roundVars>>

\* mutant: the break leaves both loops, the round ends at the first empty queue
DispatcherPopDefaultEndsRound ==
  /\ dispatcher.pc = "select"
  /\ taskChs[dispatcher.priority] = <<>>
  /\ ~CanRecvShutdown
  /\ dispatcher' = AtSlot(dispatcher, FirstSlot(numQueues))
  /\ emptyPop' = FALSE
  /\ RoundForget
  /\ UNCHANGED <<options, logVars, quietRounds, shutdownFirst, schedVars,
                 startPc, stopPc, submitVars, taskVars>>

\* lines 190-192: no other case can proceed; break leaves the select only
DispatcherPopDefault ==
  /\ dispatcher.pc = "select"
  /\ taskChs[dispatcher.priority] = <<>>
  /\ ~CanRecvShutdown
  /\ Advance
  /\ UNCHANGED <<options, logVars, quietRounds, shutdownFirst, schedVars,
                 startPc, stopPc, submitVars, taskVars>>

\* line 184: w.processor.Submit(task) returns nil
ProcessorSubmitAccepts ==
  /\ dispatcher.pc = "submit"
  /\ procSubmits' = [procSubmits EXCEPT ![dispatcher.task] = @ + 1]
  /\ fwdLog' = [fwdLog EXCEPT ![dispatcher.priority] = Append(@, dispatcher.task)]
  /\ procAccepts' = [procAccepts EXCEPT ![dispatcher.task] = @ + 1]
  /\ Advance
  /\ UNCHANGED <<options, enqLog, quietRounds, shutdownFirst, schedVars,
                 startPc, stopPc, submitVars, nackCount>>

\* line 184: w.processor.Submit(task) returns an error
ProcessorSubmitRejects ==
  /\ dispatcher.pc = "submit"
  /\ procSubmits' = [procSubmits EXCEPT ![dispatcher.task] = @ + 1]
  /\ fwdLog' = [fwdLog EXCEPT ![dispatcher.priority] = Append(@, dispatcher.task)]
  /\ dispatcher' = [dispatcher EXCEPT !.pc = "nack"]
  /\ RoundForget
  /\ UNCHANGED <<options, enqLog, emptyPop, quietRounds, shutdownFirst,
                 schedVars, startPc, stopPc, submitVars, procAccepts,
                 nackCount>>

\* mutant: the rejection is logged and Nack is not called
DispatcherNackOmitted ==
  /\ dispatcher.pc = "nack"
  /\ Advance
  /\ UNCHANGED <<options, logVars, quietRounds, shutdownFirst, schedVars,
                 startPc, stopPc, submitVars, taskVars>>

\* lines 185-186: log and task.Nack()
DispatcherNack ==
  /\ dispatcher.pc = "nack"
  /\ nackCount' = [nackCount EXCEPT ![dispatcher.task] = @ + 1]
  /\ Advance
  /\ UNCHANGED <<options, logVars, quietRounds, shutdownFirst, schedVars,
                 startPc, stopPc, submitVars, procSubmits, procAccepts>>

\* ------------------------------------------------------------ specification
Next ==
  \/ \E s \in Starters : StartCAS(s)
  \/ \E s \in Starters : StartProcessor(s)
  \/ \E s \in Starters : StartSpawn(s)
  \/ \E s \in Stoppers : StopCAS(s)
  \/ \E s \in Stoppers : StopClose(s)
  \/ \E s \in Stoppers : StopProcessor(s)
  \/ \E s \in Stoppers : StopAwait(s)
  \/ \E s \in Stoppers : StopAwaitTimeout(s)
  \/ \E t \in Tasks, priority \in PriorityInputs : SubmitBegin(t, priority)
  \/ \E t \in Tasks : SubmitEnqueue(t)
  \/ \E t \in Tasks : SubmitClosed(t)
  \/ \E t \in Tasks : SubmitNotify(t)
  \/ DispatcherNoWait
  \/ DispatcherWaitNotify
  \/ DispatcherWaitShutdown
  \/ DispatcherPop
  \/ DispatcherPopShutdown
  \/ DispatcherPopDefault
  \/ ProcessorSubmitAccepts
  \/ ProcessorSubmitRejects
  \/ DispatcherNack

Spec == Init /\ [][Next]_vars

\* Many concurrent callers of Start and Stop, one task.
InitLifecycle ==
  Constructed([Weights |-> <<2, 1>>, QueueSize |-> 1], 1, NumStarters, NumStoppers)

SpecLifecycle == InitLifecycle /\ [][Next]_vars

\* The dispatcher alone, on queues filled before Start: the scheduler was
\* constructed with Weights [3,2,1], fill[p] tasks of each class p were
\* submitted (every Submit returned nil), then Start returned.  Nobody calls
\* Submit or Stop afterwards, and the Processor accepts every task.
FirstTaskOf(fill, p) == SeqSum([q \in 1..p |-> fill[q - 1]])

InitRound ==
  \E fill \in [0..2 -> 0..MaxFill] :
    LET n == FirstTaskOf(fill, 3)
        classOf(t) == CHOOSE p \in 0..2 :
                        FirstTaskOf(fill, p) < t /\ t <= FirstTaskOf(fill, p + 1)
    IN
    /\ options = [Weights |-> <<3, 2, 1>>, QueueSize |-> MaxFill]
    /\ status = DaemonStatusStarted
    /\ taskChs = [p \in 0..2 |-> [k \in 1..fill[p] |-> FirstTaskOf(fill, p) + k]]
    /\ shutdownCh = 0
    /\ notifyCh = IF n > 0 THEN 1 ELSE 0
    /\ dispatcherWG = 1
    /\ processor = [started |-> 1, stopped |-> 0]
    /\ spawned = 1
    /\ startPc = <<"done">>
    /\ stopPc = <<>>
    /\ submitPc = [t \in 1..n |-> "done"]
    /\ submitPriority = [t \in 1..n |-> classOf(t)]
    /\ submitResult = [t \in 1..n |-> ErrNone]
    /\ dispatcher = [pc |-> "top", outstandingTasks |-> FALSE,
                     priority |-> 0, i |-> 0, task |-> NoTask]
    /\ procSubmits = [t \in 1..n |-> 0]
    /\ procAccepts = [t \in 1..n |-> 0]
    /\ nackCount = [t \in 1..n |-> 0]
    /\ roundStart = <<>>
    /\ roundDequeued = <<>>
    /\ roundClean = FALSE
    /\ afterStop = {}
    /\ shutdownFirst = {}
    /\ enqLog = [p \in 0..2 |-> [k \in 1..fill[p] |-> FirstTaskOf(fill, p) + k]]
    /\ fwdLog = [p \in 0..2 |-> <<>>]
    /\ emptyPop = FALSE
    /\ quietRounds = 0

NextRound ==
  \/ DispatcherNoWait
  \/ DispatcherWaitNotify
  \/ DispatcherPop
  \/ DispatcherPopDefault
  \/ ProcessorSubmitAccepts

SpecRound == InitRound /\ [][NextRound]_vars

\* Callers keep submitting: Submit is called with a new task, which takes the
\* identifier of a task that is over (its Submit returned; if it was enqueued,
\* the dispatcher dequeued it and the Processor accepted it or it was nacked).
\* What was recorded about the old task is dropped.
Without(s, t) == SelectSeq(s, LAMBDA u : u # t)

SubmitAnother(t) ==
  /\ submitPc[t] = "done"
  /\ submitResult[t] = ErrNone => procAccepts[t] + nackCount[t] > 0
  /\ submitPc' = [submitPc EXCEPT ![t] = "idle"]
  /\ submitPriority' = [u \in DOMAIN submitPriority \ {t} |-> submitPriority[u]]
  /\ submitResult' = [submitResult EXCEPT ![t] = Pending]
  /\ procSubmits' = [procSubmits EXCEPT ![t] = 0]
  /\ procAccepts' = [procAccepts EXCEPT ![t] = 0]
  /\ nackCount' = [nackCount EXCEPT ![t] = 0]
  /\ afterStop' = afterStop \ {t}
  /\ shutdownFirst' = shutdownFirst \ {t}
  /\ enqLog' = [p \in DOMAIN enqLog |-> Without(enqLog[p], t)]
  /\ fwdLog' = [p \in DOMAIN fwdLog |-> Without(fwdLog[p], t)]
  /\ RoundForget
  /\ UNCHANGED <<options, schedVars, startPc, stopPc, dispatcher, emptyPop,
                 quietRounds>>

\* One caller of Start, one of Stop, two callers of Submit that go on calling.
InitLive ==
  \E size \in 1..MaxQueueSize :
    Constructed([Weights |-> <<2, 1>>, QueueSize |-> size], 2, 1, 1)

NextLive == Next \/ \E t \in Tasks : SubmitAnother(t)

\* a step of the dispatcher goroutine
DispatcherStep ==
  \/ DispatcherNoWait
  \/ DispatcherWaitNotify
  \/ DispatcherWaitShutdown
  \/ DispatcherPop
  \/ DispatcherPopShutdown
  \/ DispatcherPopDefault
  \/ ProcessorSubmitAccepts
  \/ ProcessorSubmitRejects
  \/ DispatcherNack

\* The Go scheduler runs every goroutine that can take a step: a call of
\* Start, Stop or Submit that was made goes on as long as it is not blocked,
\* and so does the dispatcher; the Processor's Submit returns.  Nothing makes
\* a caller call.  A select picks uniformly at random among its ready cases,
\* so a case of the dispatcher's select that is ready again and again is
\* chosen in the end: the shutdown case is not passed over forever.
Fairness ==
  /\ WF_vars(StartProcessor(1) \/ StartSpawn(1))
  /\ WF_vars(StopClose(1) \/ StopProcessor(1) \/ StopAwait(1) \/ StopAwaitTimeout(1))
  /\ \A t \in 1..2 : WF_vars(SubmitEnqueue(t) \/ SubmitClosed(t) \/ SubmitNotify(t))
  /\ WF_vars(DispatcherStep)
  /\ SF_vars(DispatcherWaitShutdown)
  /\ SF_vars(DispatcherPopShutdown)

SpecLive == InitLive /\ [][NextLive]_vars /\ Fairness

\* ================================================================== claims
Min(a, b) == IF a < b THEN a ELSE b

\* the tasks a round takes from the queues rs, classes p.. in ascending order
RECURSIVE RoundPrefix(_, _)
RoundPrefix(rs, p) ==
  IF p >= numQueues THEN <<>>
  ELSE SubSeq(rs[p], 1, Min(Weight(p), Len(rs[p]))) \o RoundPrefix(rs, p + 1)

\* the step that ends a round
RoundEnds == dispatcher.pc \in {"select", "submit", "nack"} /\ dispatcher'.pc = "top"

ClassesOf(ts) == [k \in 1..Len(ts) |-> submitPriority[ts[k]]]

\* C1: a round during which nothing is enqueued, shutdown does not fire and
\* the Processor accepts every task dequeues from each class p, in ascending
\* order of p, exactly the first min(W[p], length at round start) tasks of
\* its queue, hands each to the Processor once, and leaves the rest queued;
\* with W = [3,2,1] that is classes 0,0,0,1,1,2 when every queue holds at
\* least 5 tasks, and classes 1,1,2 when class 0 is empty and the others
\* hold at least 2.
C1_RoundDequeuesWeights ==
  [][ (RoundEnds /\ roundClean) =>
        /\ roundDequeued = RoundPrefix(roundStart, 0)
        /\ \A p \in Priorities :
             taskChs'[p] = SubSeq(roundStart[p],
                                  Min(Weight(p), Len(roundStart[p])) + 1,
                                  Len(roundStart[p]))
        /\ \A k \in 1..Len(roundDequeued) :
             /\ procSubmits'[roundDequeued[k]] = 1
             /\ procAccepts'[roundDequeued[k]] = 1
        /\ (options.Weights = <<3, 2, 1>> /\ \A p \in Priorities : Len(roundStart[p]) >= 5)
             => ClassesOf(roundDequeued) = <<0, 0, 0, 1, 1, 2>>
        /\ (/\ options.Weights = <<3, 2, 1>>
            /\ roundStart[0] = <<>>
            /\ Len(roundStart[1]) >= 2
            /\ Len(roundStart[2]) >= 2)
             => ClassesOf(roundDequeued) = <<1, 1, 2>>
    ]_vars

\* a round that began with 5 tasks in every queue is about to end after
\* dequeuing six of them
C1_Witness ==
  /\ roundClean
  /\ \A p \in Priorities : Len(roundStart[p]) >= 5
  /\ Len(roundDequeued) = 6
  /\ dispatcher.pc = "submit"
  /\ dispatcher.priority = numQueues - 1

InQueue(t) == \E p \in DOMAIN taskChs : \E k \in 1..Len(taskChs[p]) : taskChs[p][k] = t

Begun == DOMAIN submitPriority

\* C2: a Submit of a task with a valid priority that begins after Stop has
\* completed returns ErrTaskSchedulerClosed and never enqueues the task,
\* whatever the occupancy of the queues.
C2_ClosedSubmit ==
  \A t \in afterStop :
    submitPriority[t] \in Priorities =>
      /\ ~InQueue(t)
      /\ submitPc[t] # "notify"
      /\ submitPc[t] = "done" => submitResult[t] = ErrTaskSchedulerClosed

\* C3: Submit of a task whose priority is >= numQueues returns the priority
\* error in the step that checks it (it never waits), whatever the status,
\* and leaves every queue, the pending notification and the shutdown signal
\* as they were.
C3_PriorityTooHigh ==
  [][ \A t \in Tasks :
        (submitPc[t] = "idle" /\ submitPc'[t] # "idle" /\ submitPriority'[t] >= numQueues)
          => /\ submitPc'[t] = "done"
             /\ submitResult'[t] = ErrPriorityExceeds
             /\ UNCHANGED <<taskChs, notifyCh, shutdownCh, status>>
    ]_vars

\* a Submit that began after Stop completed, while another task was queued,
\* returned the priority error
C3_Witness ==
  \E t \in afterStop :
    /\ submitPriority[t] >= numQueues
    /\ submitResult[t] = ErrPriorityExceeds
    /\ \E u \in Tasks : InQueue(u)

\* C4: Submit of a task whose priority is negative returns the priority error
\* and enqueues nothing, and Submit ends in no other way than nil, the
\* priority error or ErrTaskSchedulerClosed.
C4_NegativePriority ==
  \A t \in Begun :
    /\ submitPriority[t] < 0 =>
         /\ submitPc[t] = "done"
         /\ submitResult[t] = ErrPriorityExceeds
         /\ ~InQueue(t)
    /\ submitResult[t] \in {Pending, ErrNone, ErrPriorityExceeds, ErrTaskSchedulerClosed}

\* C5 (safety part): a Submit facing a full queue neither returns nor
\* enqueues while the queue stays full and shutdown has not fired; it
\* enqueues only when the queue has room, once, at the tail; and a Submit
\* that faced a full queue when shutdown fired returns ErrTaskSchedulerClosed
\* without enqueuing.
C5_Backpressure ==
  [][ \A t \in Tasks :
        /\ (submitPc[t] = "select" /\ ~CanSend(submitPriority[t]) /\ ~ShutdownFired)
             => (submitPc'[t] = "select" /\ ~InQueue(t)')
        /\ (submitPc[t] = "select" /\ submitPc'[t] = "notify")
             => /\ CanSend(submitPriority[t])
                /\ ~InQueue(t)
                /\ taskChs'[submitPriority[t]] = Append(taskChs[submitPriority[t]], t)
        /\ t \in shutdownFirst'
             => /\ ~InQueue(t)'
                /\ submitPc'[t] \in {"select", "done"}
                /\ submitPc'[t] = "done" => submitResult'[t] = ErrTaskSchedulerClosed
    ]_vars

StartCalled(s) == startPc[s] = "idle" /\ startPc'[s] # "idle"
StopCalled(s)  == stopPc[s] = "idle" /\ stopPc'[s] # "idle"

\* everything but the callers' own positions
sharedVars == <<options, schedVars, submitVars, dispatcher, taskVars, roundVars,
                shutdownFirst, obsVars>>

\* C6: however the Start and Stop calls interleave, Processor.Start is called
\* at most once, at most one dispatcher is spawned, shutdownCh is closed at
\* most once and Processor.Stop is called at most once; a call that loses the
\* compare-and-swap returns at once and changes nothing.
C6_IdempotentLifecycle ==
  [][ /\ processor'.started <= 1
      /\ spawned' <= 1
      /\ shutdownCh' <= 1
      /\ processor'.stopped <= 1
      /\ \A s \in Starters :
           (StartCalled(s) /\ status # DaemonStatusInitialized)
             => (startPc'[s] = "done" /\ UNCHANGED <<sharedVars, stopPc>>)
      /\ \A s \in Stoppers :
           (StopCalled(s) /\ status # DaemonStatusStarted)
             => (stopPc'[s] = "done" /\ UNCHANGED <<sharedVars, startPc>>)
    ]_vars

\* every caller has returned: each effect happened exactly once
C6_Witness ==
  /\ \A s \in Starters : startPc[s] = "done"
  /\ \A s \in Stoppers : stopPc[s] = "done"
  /\ Cardinality(Starters) >= 2 /\ Cardinality(Stoppers) >= 2
  /\ processor = [started |-> 1, stopped |-> 1]
  /\ spawned = 1
  /\ shutdownCh = 1

StatusSteps ==
  /\ status' # status =>
       \/ /\ status = DaemonStatusInitialized /\ status' = DaemonStatusStarted
          /\ \E s \in Starters : StartCalled(s)
       \/ /\ status = DaemonStatusStarted /\ status' = DaemonStatusStopped
          /\ \E s \in Stoppers : StopCalled(s)
  /\ \A s \in Stoppers :
       (StopCalled(s) /\ status = DaemonStatusInitialized)
         => (stopPc'[s] = "done" /\ UNCHANGED <<sharedVars, startPc>>)
  /\ \A s \in Starters :
       (StartCalled(s) /\ status = DaemonStatusStopped)
         => (startPc'[s] = "done" /\ UNCHANGED <<sharedVars, stopPc>>)

\* C7 as stated: the status moves only Initialized->Started (by Start) and
\* Started->Stopped (by Stop); Stop while Initialized and Start while Stopped
\* change nothing; no dispatcher is spawned once the status is Stopped; and
\* the shutdown signal is fired exactly when the status is Stopped.
C7_StatusAsStated ==
  [][ /\ StatusSteps
      /\ spawned' > spawned => status # DaemonStatusStopped
      /\ ShutdownFired' <=> status' = DaemonStatusStopped
    ]_vars

\* C7 amended: as above, but the shutdown signal is fired only if the status
\* is Stopped, and a Stopped status comes with the signal fired except while
\* the Stop call that won is between its compare-and-swap and its close; the
\* dispatcher is spawned only by the Start call that won, possibly after a
\* concurrent Stop set the status to Stopped.
C7_StatusTransitions ==
  [][ /\ StatusSteps
      /\ spawned' > spawned => \E s \in Starters : startPc[s] = "spawn" /\ startPc'[s] = "done"
      /\ ShutdownFired' => status' = DaemonStatusStopped
      /\ (status' = DaemonStatusStopped /\ \A s \in Stoppers : stopPc'[s] # "close")
           => ShutdownFired'
    ]_vars

\* the scheduler went through both transitions, every caller has returned,
\* and one dispatcher was spawned
C7_Witness ==
  /\ status = DaemonStatusStopped
  /\ ShutdownFired
  /\ spawned = 1
  /\ \A s \in Starters : startPc[s] = "done"
  /\ \A s \in Stoppers : stopPc[s] = "done"

\* C8: when Processor.Submit rejects a dequeued task the dispatcher calls
\* that task's Nack, once, never hands the task to the Processor again and
\* never puts it back in a queue, then goes on with the next slot; the
\* dispatcher returns only when shutdown has fired.
C8_FailureForwarding ==
  [][ /\ \A t \in Tasks :
           /\ (procSubmits'[t] > procSubmits[t] /\ procAccepts'[t] = procAccepts[t])
                => (dispatcher'.pc = "nack" /\ dispatcher'.task = t)
           /\ nackCount'[t] = procSubmits'[t] - procAccepts'[t]
                              - (IF dispatcher'.pc = "nack" /\ dispatcher'.task = t
                                   THEN 1 ELSE 0)
           /\ nackCount'[t] <= 1
           /\ procSubmits'[t] <= 1
           /\ procSubmits'[t] > 0 => ~InQueue(t)'
      /\ (dispatcher.pc = "nack" /\ dispatcher' # dispatcher)
           => /\ dispatcher'.pc \in {"select", "top"}
              /\ dispatcher'.outstandingTasks
              /\ <<dispatcher'.priority, dispatcher'.i>> # <<dispatcher.priority, dispatcher.i>>
      /\ (dispatcher.pc # "done" /\ dispatcher'.pc = "done")
           => (ShutdownFired /\ dispatcher.pc \in {"top", "select"})
    ]_vars

\* the Processor rejected every task, each was nacked once, and the
\* dispatcher is still looping
C8_Witness ==
  /\ \A t \in Tasks : procAccepts[t] = 0 /\ nackCount[t] = 1
  /\ dispatcher.pc \in {"select", "top"}
  /\ ~ShutdownFired

Failed(t) == submitResult[t] \in {ErrPriorityExceeds, ErrTaskSchedulerClosed,
                                  PanicIndexOutOfRange}

C10_NoWorkLost ==
  (StopCompleted /\ dispatcher.pc = "done") =>
    \A t \in Tasks :
      submitResult[t] = ErrNone =>
        /\ procSubmits[t] > 0 \/ nackCount[t] > 0
        /\ ~InQueue(t)

Occurrences(t) ==
  Cardinality({pk \in {<<p, k>> : p \in DOMAIN taskChs, k \in 1..MaxQueueSize + NumTasks} :
                 pk[2] <= Len(taskChs[pk[1]]) /\ taskChs[pk[1]][pk[2]] = t})

\* the task was put in a queue by its Submit
Enqueued(t) == submitPc[t] = "notify" \/ submitResult[t] = ErrNone

\* the dispatcher took the task out of its queue
Dequeued(t) == (dispatcher.pc \in {"submit", "nack"} /\ dispatcher.task = t)
               \/ procSubmits[t] > 0

\* C11: every task a Submit enqueued is in exactly one place: once in the
\* queue of its own priority and in no other, or taken out by the dispatcher;
\* the dispatcher calls Processor.Submit at most once for it, and a task no
\* Submit enqueued is in no queue.
C11_NoDoubleProcessing ==
  \A t \in Tasks :
    /\ Occurrences(t) <= 1
    /\ InQueue(t) => (t \in Begun /\ submitPriority[t] \in Priorities
                      /\ \E k \in 1..Len(taskChs[submitPriority[t]]) :
                           taskChs[submitPriority[t]][k] = t)
    /\ Enqueued(t) <=> (InQueue(t) \/ Dequeued(t))
    /\ ~(InQueue(t) /\ Dequeued(t))
    /\ procSubmits[t] <= 1
    /\ (dispatcher.pc \in {"submit", "nack"} /\ dispatcher.task = t)
         => procSubmits[t] = (IF dispatcher.pc = "nack" THEN 1 ELSE 0)

\* one task waits in its queue while another has been dequeued and handed to
\* the Processor once
C11_Witness ==
  \E t, u \in Tasks :
    /\ InQueue(t) /\ submitResult[t] = ErrNone
    /\ procSubmits[u] = 1 /\ ~InQueue(u)

\* C12: in a started scheduler whose weights are all positive, as long as
\* the shutdown signal does not fire and the Processor's Submit returns, every
\* task waiting in a queue is eventually dequeued and handed to the Processor,
\* however many tasks callers keep submitting to the other classes; and when
\* the dispatcher comes to a class whose queue holds a task, it dequeues the
\* head of that queue.
C12_StarvationFreedom ==
  /\ \A t \in 1..2 :
       (InQueue(t) /\ status # DaemonStatusInitialized)
         ~> (procSubmits[t] > 0 \/ ShutdownFired)
  /\ [][ (/\ dispatcher.pc = "select" /\ dispatcher.i = 0
          /\ taskChs[dispatcher.priority] # <<>>
          /\ ~ShutdownFired
          /\ dispatcher' # dispatcher)
         => (/\ dispatcher'.pc = "submit"
             /\ dispatcher'.task = Head(taskChs[dispatcher.priority])
             /\ taskChs'[dispatcher.priority] = Tail(taskChs[dispatcher.priority])) ]_vars

\* a task of the lowest class was handed to the Processor while a task of a
\* higher class, submitted after an earlier one was over, waits in its queue
C12_Witness ==
  /\ ~ShutdownFired
  /\ \A p \in Priorities : Weight(p) > 0
  /\ \E t, u \in Tasks :
       /\ t \in Begun /\ submitPriority[t] = numQueues - 1 /\ procSubmits[t] = 1
       /\ InQueue(u) /\ submitPriority[u] < submitPriority[t]
       /\ fwdLog[submitPriority[t]] = <<t>>

\* C13: once the shutdown signal has fired, the dispatcher's next pop attempt
\* ends the dispatcher, mid-round: a pop attempt that starts after the signal
\* fired dequeues no task and leads to no Processor.Submit, also when the
\* queue holds tasks.
C13_ShutdownStopsPops ==
  [][ (ShutdownFired /\ dispatcher.pc = "select" /\ dispatcher' # dispatcher)
        => (/\ dispatcher'.pc = "done"
            /\ taskChs' = taskChs
            /\ dispatcher'.task = NoTask) ]_vars

\* C14: the Stop call that wins Started->Stopped fires the shutdown signal,
\* then calls Processor.Stop, then waits for the dispatcher and returns, in
\* that order and each once; after the signal fired the dispatcher exits,
\* wherever it was and while callers go on submitting; and every Stop call that
\* was made returns.
C14_StopTerminates ==
  /\ [][ /\ shutdownCh' # shutdownCh =>
              /\ shutdownCh = 0 /\ processor.stopped = 0
              /\ status = DaemonStatusStopped
              /\ \E s \in Stoppers : stopPc[s] = "close" /\ stopPc'[s] = "processorStop"
         /\ processor.stopped' # processor.stopped =>
              /\ ShutdownFired /\ processor.stopped = 0
              /\ \E s \in Stoppers : stopPc[s] = "processorStop" /\ stopPc'[s] = "await"
         /\ \A s \in Stoppers :
              (stopPc[s] \notin {"idle", "done"} /\ stopPc'[s] = "done") =>
                 /\ stopPc[s] = "await"
                 /\ ShutdownFired /\ processor.stopped = 1 ]_vars
  /\ ShutdownFired ~> (dispatcher.pc = "done")
  /\ (stopPc[1] # "idle") ~> (stopPc[1] = "done")

\* Stop has returned after closing shutdownCh and stopping the Processor, and
\* the dispatcher has exited from the second slot of class 0, mid-round, with
\* a task that was submitted after the signal fired still in a queue
C14_Witness ==
  /\ stopPc[1] = "done" /\ ShutdownFired /\ processor.stopped = 1
  /\ dispatcher.pc = "done" /\ dispatcher.i = 1
  /\ \E t \in afterStop : InQueue(t)

\* the task the dispatcher dequeued from class p and has not yet passed on
InFlight(p) ==
  IF dispatcher.pc = "submit" /\ dispatcher.priority = p
    THEN <<dispatcher.task>> ELSE <<>>

\* C15: the tasks of one priority class are dequeued and handed to
\* Processor.Submit in the order in which their enqueues took effect, whatever
\* the interleaving of the Submit calls: the tasks handed on, then the task
\* just dequeued, then the queue, are the enqueue order of the class.
C15_FifoWithinClass ==
  \A p \in Priorities : enqLog[p] = fwdLog[p] \o InFlight(p) \o taskChs[p]

\* two tasks of class 0 were handed to the Processor; the one whose Submit
\* call began second was enqueued first
C15_Witness ==
  /\ fwdLog[0] = <<2, 1>>
  /\ enqLog[0] = <<2, 1>>

\* C16: the notification signal holds at most one pending notification; a
\* Submit that enqueued its task posts without blocking and returns nil,
\* leaving one notification pending whether or not one was pending before;
\* nothing else posts, so a Submit that fails posts nothing; and only the
\* dispatcher's idle wait, entered after a round that dispatched nothing,
\* takes the pending notification.
C16_NotificationSignal ==
  [][ /\ notifyCh \in {0, 1} /\ notifyCh' \in {0, 1}
      /\ \A t \in Tasks :
           /\ submitPc[t] = "notify" => ENABLED SubmitNotify(t)
           /\ (submitPc[t] = "notify" /\ submitPc'[t] # "notify") =>
                (notifyCh' = 1 /\ submitResult'[t] = ErrNone /\ submitPc'[t] = "done")
           /\ (submitResult'[t] # submitResult[t] /\ submitResult'[t] # ErrNone) =>
                notifyCh' = notifyCh
      /\ notifyCh' > notifyCh =>
           \E t \in Tasks : submitPc[t] = "notify" /\ submitResult'[t] = ErrNone
      /\ notifyCh' < notifyCh =>
           /\ dispatcher.pc = "top" /\ ~dispatcher.outstandingTasks
           /\ dispatcher'.pc # "done"
           /\ submitPc' = submitPc ]_vars

\* two Submits returned nil and posted, no round ran in between, and a
\* single notification is pending
C16_Witness ==
  /\ notifyCh = 1
  /\ ~ShutdownFired
  /\ dispatcher.pc = "top" /\ ~dispatcher.outstandingTasks
  /\ \E t, u \in Tasks :
       /\ t # u
       /\ submitResult[t] = ErrNone /\ InQueue(t)
       /\ submitResult[u] = ErrNone /\ InQueue(u)
       /\ submitPriority[t] = 0
  /\ \A t \in Tasks : procSubmits[t] = 0

\* C17: within one round, once a pop attempt on a class found its queue
\* empty, no task of that class is dequeued in the rest of the round, also
\* when a Submit enqueues into the class before the remaining slots of the
\* class are used.
C17_EmptyPopEndsClass ==
  [][ (emptyPop /\ dispatcher.pc = "select") => dispatcher'.pc # "submit" ]_vars

\* the dispatcher goroutine runs and cannot take a step
Suspended == dispatcher.pc \notin {"none", "done"} /\ ~ENABLED DispatcherStep

\* C18: the dispatcher is suspended only at the top of the outer loop with
\* outstandingTasks false (its first round, or after a round that dequeued
\* nothing) and leaves that wait only by taking a notification or on shutdown;
\* after a round that dequeued a task it begins the next round without
\* touching the notification; and once every queue is empty and no Submit is
\* in progress it begins at most two rounds, after which it is suspended
\* until a Submit or the shutdown.
C18_NoBusyPoll ==
  [][ /\ Suspended => (dispatcher.pc = "top" /\ ~dispatcher.outstandingTasks)
      /\ (dispatcher.pc = "top" /\ dispatcher' # dispatcher) =>
           IF dispatcher.outstandingTasks
             THEN dispatcher'.pc = "select" /\ notifyCh' = notifyCh
             ELSE \/ dispatcher'.pc = "select" /\ notifyCh = 1 /\ notifyCh' = 0
                  \/ dispatcher'.pc = "done" /\ ShutdownFired
      /\ quietRounds <= 2 /\ quietRounds' <= 2
      /\ (Quiescent /\ quietRounds = 2 /\ dispatcher.pc = "top" /\ ~ShutdownFired)
           => Suspended
      /\ (Suspended /\ dispatcher' # dispatcher) =>
           \/ \E t \in Tasks : submitPc[t] = "notify" /\ submitPc'[t] = "done"
           \/ (~ShutdownFired) /\ ShutdownFired' ]_vars

\* the queues are empty, no Submit is in progress, and the dispatcher is
\* suspended after two rounds that found nothing: one begun without waiting,
\* one begun on a notification left over from a task it had already dequeued
C18_Witness ==
  /\ Quiescent /\ quietRounds = 2
  /\ Suspended /\ ~ShutdownFired
  /\ notifyCh = 0
  /\ \E t \in Tasks : procSubmits[t] = 1

\* C19: no wake-up is lost.  While the shutdown signal has not fired and some
\* queue holds a task, the dispatcher is inside a round, or about to begin
\* one without waiting, or a notification is pending, or a Submit that
\* enqueued its task is about to post one.  This holds from construction on,
\* so also in every state of a started scheduler.
C19_NoLostWakeup ==
  (~ShutdownFired /\ \E p \in Priorities : taskChs[p] # <<>>) =>
     \/ dispatcher.pc \in {"select", "submit", "nack"}
     \/ dispatcher.pc = "top" /\ dispatcher.outstandingTasks
     \/ notifyCh = 1
     \/ \E t \in Tasks : submitPc[t] = "notify"

\* a started dispatcher that has dispatched a task is waiting at the idle
\* select with no notification pending, while a task enqueued since then sits
\* in its queue and its Submit has yet to post
C19_Witness ==
  /\ status = DaemonStatusStarted /\ ~ShutdownFired
  /\ dispatcher.pc = "top" /\ ~dispatcher.outstandingTasks
  /\ notifyCh = 0
  /\ \E t, u \in Tasks :
       /\ InQueue(t) /\ submitPc[t] = "notify"
       /\ procSubmits[u] = 1

\* C20: while the scheduler is Initialized, a Submit is accepted as long as
\* the queue of its class holds fewer than QueueSize tasks, and is blocked
\* when it is full; the accepted tasks stay in their queues, with one
\* notification pending once a Submit returned nil; and after Start the
\* tasks that wait in the queues when the dispatcher is spawned are all
\* handed to the Processor, with no further call of Submit, unless the
\* shutdown signal fires first.
C20_SubmitBeforeStart ==
  /\ [](status = DaemonStatusInitialized =>
          /\ dispatcher.pc = "none" /\ ~ShutdownFired
          /\ \A p \in Priorities : Len(taskChs[p]) <= options.QueueSize
          /\ \A t \in Tasks :
               /\ Enqueued(t) => (InQueue(t) /\ procSubmits[t] = 0)
               /\ submitResult[t] \notin {ErrTaskSchedulerClosed}
               /\ submitPc[t] = "select" =>
                    /\ CanSend(submitPriority[t]) <=> ENABLED SubmitEnqueue(t)
                    /\ ~CanSend(submitPriority[t]) =>
                         ~ENABLED (SubmitEnqueue(t) \/ SubmitClosed(t))
          /\ (\E t \in Tasks : submitResult[t] = ErrNone) => notifyCh = 1)
  /\ \A t \in 1..2 :
       (InQueue(t) /\ dispatcher.pc = "none" /\ status # DaemonStatusInitialized)
         ~> (procSubmits[t] > 0 \/ ShutdownFired)

\* before Start: the queue of class 0 is full of accepted tasks, one
\* notification is pending, and a further Submit to class 0 is blocked
C20_Witness ==
  /\ status = DaemonStatusInitialized
  /\ Len(taskChs[0]) = options.QueueSize
  /\ notifyCh = 1
  /\ \E t \in Tasks :
       /\ submitPc[t] = "select" /\ submitPriority[t] = 0
       /\ ~ENABLED (SubmitEnqueue(t) \/ SubmitClosed(t))
  /\ \E u \in Tasks : submitResult[u] = ErrNone /\ InQueue(u)

====
